---- MODULE Spec2Model ----
(***************************************************************************)
(* git_info_llama: one run of main() walks the commits reachable from HEAD *)
(* and the references of a repository and inserts them into an SQLite      *)
(* file (tables commit_details, commit_relation, ref_details).            *)
(*                                                                         *)
(* The model follows src/src/main.rs statement by statement.  Every call   *)
(* that returns a Result is a step with its outcomes; unwrap/expect/`?`    *)
(* decide where an Err goes.  A rusqlite Transaction that is dropped       *)
(* without commit() rolls back, so a panic or an early return while a      *)
(* transaction is open discards its pending rows.                          *)
(***************************************************************************)
EXTENDS Integers, Sequences, FiniteSets, TLC

\* ---------------------------------------------------------------- bounds
\* Repository sizes are 0..MaxSmall and ChunkSize..ChunkSize+MaxExtra, so
\* that empty, partial, exactly full and overflowing chunks all occur.
MaxSmall == 3
MaxExtra == 1
\* Number of times the program is run against the same destination.
MaxRuns == 2
\* Longest traversal whose items take every combination of optional fields.
MaxNorm == 2

\* ------------------------------------------------------ program constants
\* all_commits.chunks(50), all_references.chunks(50)
ChunkSize == 50
\* batch_insert_refs: let chunk_size = 50
chunk_size == 50

\* -------------------------------------------------------- Option<T> values
None == <<>>
Some(x) == <<x>>
unwrap_or(o, d) == IF o = None THEN d ELSE o[1]

\* Oid::to_string(): the hexadecimal text of an object id.  Object ids are
\* numbered here; the text of a number is its decimal numeral.
OidToString(oid) == ToString(oid)

Min(a, b) == IF a < b THEN a ELSE b

\* ------------------------------------------------------------ the tables
T_commit_details == "commit_details"
T_commit_relation == "commit_relation"
T_ref_details == "ref_details"

\* The order in which create_database issues its three CREATE TABLE.
SchemaTables == <<T_commit_details, T_commit_relation, T_ref_details>>

EmptyRows == [commit_details |-> {}, commit_relation |-> {}, ref_details |-> {}]

\* No transaction is open.
NoTx == [open |-> FALSE, rows |-> EmptyRows]

\* Primary keys of the three tables (create_database).
KeyOf(t, row) ==
    IF t = T_commit_details THEN <<row.id>>
    ELSE IF t = T_commit_relation THEN <<row.parent, row.child>>
    ELSE <<row.name, row.id>>

\* --------------------------------------------------------- pure functions
\* slice::chunks(size): consecutive non-overlapping slices of `size`
\* elements, the last one shorter when size does not divide the length.
\* Mutant: the division rounds down, so a shorter last chunk is lost.
NumChunks_floor(s, size) == Len(s) \div size

NumChunks(s, size) == (Len(s) + size - 1) \div size

\* Mutant: the end of a chunk is taken exclusive.
Chunks_off_by_one(s, size) ==
    [c \in 1..NumChunks(s, size) |->
        SubSeq(s, (c - 1) * size + 1, Min(c * size, Len(s)) - 1)]

Chunks(s, size) ==
    [c \in 1..NumChunks(s, size) |->
        SubSeq(s, (c - 1) * size + 1, Min(c * size, Len(s)))]

\* Mutant: the message takes the author's fallback.
extract_commit_details_same_default(commit) ==
    [id |-> OidToString(commit.oid),
     author |-> unwrap_or(commit.author, "Unknown"),
     date |-> commit.time,
     message |-> unwrap_or(commit.message, "Unknown"),
     parents |-> commit.parent_ids]

\* fn extract_commit_details(commit: &Commit) -> CommitDetails
extract_commit_details(commit) ==
    [id |-> OidToString(commit.oid),
     author |-> unwrap_or(commit.author, "Unknown"),
     date |-> commit.time,
     message |-> unwrap_or(commit.message, "No message"),
     parents |-> commit.parent_ids]

\* fn extract_ref_details(reference: &Reference) -> RefDetails
extract_ref_details(reference) ==
    [name |-> unwrap_or(reference.name, ""),
     id |-> IF reference.target = None THEN "Unknown"
            ELSE OidToString(reference.target[1]),
     kind |-> IF reference.kind = Some("Direct") THEN "Direct"
              ELSE IF reference.kind = Some("Symbolic") THEN "Symbolic"
              ELSE "Unknown"]

\* The items of a chunk the traversal yielded as Ok(..); an Err(e) item is
\* printed and left out (the `Err(e) => println!` arms).
OkItems(chunk) == SelectSeq(chunk, LAMBDA item : item.res = "Ok")

\* The inner loop of get_commits_detail_array: chunk_commits after the loop.
BuildChunkCommits(chunk) ==
    [k \in 1..Len(OkItems(chunk)) |-> extract_commit_details(OkItems(chunk)[k])]

\* repo.find_commit(*oid) fails for some Ok(oid) of the chunk: expect panics.
FindCommitFails(chunk) ==
    \E k \in 1..Len(chunk) : chunk[k].res = "Ok" /\ ~chunk[k].found

\* The inner loop of get_ref_details: chunk_refs after the loop.
BuildChunkRefs(chunk) ==
    [k \in 1..Len(OkItems(chunk)) |-> extract_ref_details(OkItems(chunk)[k])]

\* The rows the INSERT statements bind (params![..]).
CommitRow(c) == [id |-> c.id, author |-> c.author, date |-> c.date, message |-> c.message]
\* Mutant: the two parameters of the relation INSERT are bound the other way.
RelationRow_swapped(c, p) == [parent |-> c.id, child |-> OidToString(c.parents[p])]

RelationRow(c, p) == [parent |-> OidToString(c.parents[p]), child |-> c.id]
RefRow(r) == [id |-> r.id, name |-> r.name, kind |-> r.kind]

\* ------------------------------------------------------- the repositories
\* Position i of the revwalk (1 is HEAD, descendants before ancestors) is
\* the commit numbered i.  A repository is a chain, with at most one item
\* that departs from it.
CommitAnomalies ==
    {"merge", "dup_parent", "walk_err", "not_found", "no_author", "no_message"}
RefAnomalies == {"ref_err", "symbolic", "no_name", "no_kind"}
\* The anomalies that change which statements run, not only a field's value.
ControlAnomalies == {"merge", "dup_parent", "walk_err", "not_found", "ref_err"}

SmallSizes == 0..MaxSmall
LargeSizes == ChunkSize..(ChunkSize + MaxExtra)

ParentIds(i, n, kind) ==
    IF i >= n THEN <<>>
    ELSE IF kind = "merge" /\ i + 1 < n THEN <<i + 1, n>>
    ELSE IF kind = "dup_parent" THEN <<i + 1, i + 1>>
    ELSE <<i + 1>>

RawCommit(i, n, kind) ==
    [res |-> IF kind = "walk_err" THEN "Err" ELSE "Ok",
     oid |-> i,
     found |-> kind # "not_found",
     author |-> IF kind = "no_author" THEN None ELSE Some("alice"),
     time |-> n - i,
     message |-> IF kind = "no_message" THEN None ELSE Some("init"),
     parent_ids |-> ParentIds(i, n, kind)]

RawRef(j, kind) ==
    [res |-> IF kind = "ref_err" THEN "Err" ELSE "Ok",
     name |-> IF kind = "no_name" THEN None ELSE Some("refs/heads/" \o ToString(j)),
     target |-> IF kind = "symbolic" THEN None ELSE Some(j),
     kind |-> IF kind = "no_kind" THEN None
              ELSE IF kind = "symbolic" THEN Some("Symbolic") ELSE Some("Direct")]

MakeRepo(n, r, at, kind) ==
    [commits |-> [i \in 1..n |->
        RawCommit(i, n, IF i = at /\ kind \in CommitAnomalies THEN kind ELSE "plain")],
     refs |-> [j \in 1..r |->
        RawRef(j, IF j = at /\ kind \in RefAnomalies THEN kind ELSE "plain")]]

\* Small repositories take their odd item anywhere; a repository of one
\* chunk or more takes it at the end of the first chunk or after it, and
\* only an item that changes the control flow.
SmallRepositories ==
    UNION { { MakeRepo(n, r, at, kind) : at \in 1..n, kind \in CommitAnomalies }
            \cup { MakeRepo(n, r, at, kind) : at \in 1..r, kind \in RefAnomalies }
            \cup { MakeRepo(n, r, 0, "plain") } :
            n \in SmallSizes, r \in SmallSizes }

LargeRepositories ==
    UNION { { MakeRepo(n, 1, at, kind) : at \in ChunkSize..n,
                                       kind \in CommitAnomalies \cap ControlAnomalies }
            \cup { MakeRepo(1, n, at, kind) : at \in ChunkSize..n,
                                         kind \in RefAnomalies \cap ControlAnomalies }
            \cup { MakeRepo(n, 1, 0, "plain"), MakeRepo(1, n, 0, "plain") } :
            n \in LargeSizes }

Repositories == SmallRepositories \cup LargeRepositories

\* ------------------------------------------------------------------ state
VARIABLES
    repo,           \* the repository at repository_path (never written)
    file,           \* whether the file db_path exists on disk
    tables,         \* the tables of the database file
    db,             \* the committed rows of each table
    tx,             \* the open transaction and its pending rows
    pc,             \* where the process is; "done" and "failed" are exits
    db_exists,      \* main: let db_exists
    chunk_i,        \* which chunk of all_commits / all_references is current
    chunk_commits,  \* get_commits_detail_array: let mut chunk_commits
    commit_i,       \* batch_insert_commits: position of `commit` in commits
    parent_i,       \* batch_insert_commits: position of `parent`
    chunk_refs,     \* get_ref_details: let mut chunk_refs
    ref_i,          \* batch_insert_refs: position of `reference` in refs
    created,        \* what the match on create_database(&conn) printed
    err,            \* the panic that ended the process, if any
    log,            \* the INSERT statements this run executed, in order
    db0,            \* the committed rows when this run started
    run             \* how many times the program has been started

vars == <<repo, file, tables, db, tx, pc, db_exists, chunk_i, chunk_commits,
          commit_i, parent_i, chunk_refs, ref_i, created, err, log, db0, run>>

locals == <<chunk_i, chunk_commits, commit_i, parent_i, chunk_refs, ref_i>>

NoErr == [msg |-> "", cause |-> ""]

\* all_commits / all_references: the traversals collected into a Vec.
all_commits == repo.commits
all_references == repo.refs

\* What a statement of the open transaction sees.
Visible(t) == db[t] \cup tx.rows[t]

\* Mutant: the tables are created without PRIMARY KEY.
PkConflict_none(t, row) == FALSE

PkConflict(t, row) == \E x \in Visible(t) : KeyOf(t, x) = KeyOf(t, row)

\* Mutant: commit_relation.parent REFERENCES commit_details(id), enforced at
\* the statement, so an edge to a commit not yet inserted is refused.
InsertResults_foreign_key(t, row) ==
    IF t \notin tables THEN {"no such table"}
    ELSE IF PkConflict(t, row) THEN {"constraint"}
    ELSE IF t = T_commit_relation /\ ~(\E x \in Visible(T_commit_details) : x.id = row.parent)
         THEN {"constraint"}
    ELSE {"ok", "rejected"}

\* Mutant: INSERT OR IGNORE, a row whose key is taken is passed over.
InsertResults_or_ignore(t, row) ==
    IF t \notin tables THEN {"no such table"}
    ELSE {"ok", "rejected"}

\* The outcomes of tx.execute(INSERT ..): the statement cannot be prepared
\* when the table is missing, the primary key rejects a duplicate, and the
\* destination may reject any insert (I/O error, disk full).
InsertResults(t, row) ==
    IF t \notin tables THEN {"no such table"}
    ELSE IF PkConflict(t, row) THEN {"constraint"}
    ELSE {"ok", "rejected"}

LogEntry(t, row, res) == [table |-> t, row |-> row, chunk |-> chunk_i, result |-> res]

\* panic!: the process exits; a Transaction dropped while unwinding (or by a
\* `?` return) rolls back, so its pending rows are discarded.
RolledBack == NoTx

\* What was committed before stays committed.
\* Mutant: the whole run is one unit, a failure undoes the earlier chunks too.
Abort_undo_run(msg, cause) ==
    /\ pc' = "failed"
    /\ tx' = RolledBack
    /\ db' = db0
    /\ err' = [msg |-> msg, cause |-> cause]

\* Mutant: a transaction dropped by the failure is committed, not rolled back.
Abort_commit_on_drop(msg, cause) ==
    /\ pc' = "failed"
    /\ tx' = RolledBack
    /\ db' = [t \in DOMAIN db |-> db[t] \cup tx.rows[t]]
    /\ err' = [msg |-> msg, cause |-> cause]

Abort(msg, cause) ==
    /\ pc' = "failed"
    /\ tx' = RolledBack
    /\ db' = db
    /\ err' = [msg |-> msg, cause |-> cause]

\* Mutant: INSERT OR REPLACE of the whole table by the transaction's rows.
Committed_overwrite == [t \in DOMAIN db |-> tx.rows[t]]

\* tx.commit(): the pending rows become durable.
Committed == [t \in DOMAIN db |-> db[t] \cup tx.rows[t]]

Init ==
    /\ repo \in Repositories
    /\ file = FALSE
    /\ tables = {}
    /\ db = EmptyRows
    /\ tx = NoTx
    /\ pc = "main"
    /\ db_exists = FALSE
    /\ chunk_i = 0
    /\ chunk_commits = <<>>
    /\ commit_i = 0
    /\ parent_i = 0
    /\ chunk_refs = <<>>
    /\ ref_i = 0
    /\ created = "none"
    /\ err = NoErr
    /\ log = <<>>
    /\ db0 = EmptyRows
    /\ run = 1

\* ------------------------------------------------------------------- main
\* let db_exists = fs::metadata(db_path).is_ok();
\* let mut conn = Connection::open(db_path).expect(..);  if !db_exists {..}
OpenConnection ==
    /\ pc = "main"
    /\ db_exists' = file
    /\ \/ /\ file' = TRUE
          /\ pc' = IF file THEN "open_repo" ELSE "create"
          /\ UNCHANGED <<tx, db, err>>
       \/ /\ Abort("Failed to open database", "open")
          /\ UNCHANGED file
    /\ UNCHANGED <<repo, tables, locals, created, log, db0, run>>

\* create_database: three CREATE TABLE, each behind `?`; n of them succeed.
\* main only prints the Err and goes on.
create_database ==
    /\ pc = "create"
    /\ \E n \in 0..Len(SchemaTables) :
        /\ \A i \in 1..n : SchemaTables[i] \notin tables
        /\ tables' = tables \cup { SchemaTables[i] : i \in 1..n }
        /\ created' = IF n = Len(SchemaTables) THEN "ok" ELSE "error"
    /\ pc' = "open_repo"
    /\ UNCHANGED <<repo, file, db, tx, db_exists, locals, err, log, db0, run>>

\* Mutant: main calls get_ref_details first and returns after it.
OpenRepository_refs_first ==
    /\ pc = "open_repo"
    /\ \/ /\ pc' = "references"
          /\ UNCHANGED <<tx, db, err>>
       \/ Abort("Failed to open the repository.", "open")
    /\ UNCHANGED <<repo, file, tables, db_exists, locals, created, log, db0, run>>

\* to_absolute_path(..).expect(..); Repository::open(&path).expect(..)
OpenRepository ==
    /\ pc = "open_repo"
    /\ \/ /\ pc' = "revwalk"
          /\ UNCHANGED <<tx, db, err>>
       \/ Abort("Failed to open the repository.", "open")
    /\ UNCHANGED <<repo, file, tables, db_exists, locals, created, log, db0, run>>

\* ----------------------------------------------- get_commits_detail_array
\* repo.revwalk().expect(..); revwalk.push_head().expect(..); collect().
\* push_head fails when HEAD names no commit (a repository without commits).
Revwalk ==
    /\ pc = "revwalk"
    /\ IF Len(all_commits) = 0
       THEN /\ Abort("Failed to push head.", "head")
            /\ UNCHANGED chunk_i
       ELSE /\ pc' = "commit_chunk"
            /\ chunk_i' = 1
            /\ UNCHANGED <<tx, db, err>>
    /\ UNCHANGED <<repo, file, tables, db_exists, chunk_commits, commit_i,
                   parent_i, chunk_refs, ref_i, created, log, db0, run>>

\* for chunk in all_commits.chunks(50) { .. inner loop .. }: the chunk's Ok
\* items are looked up and normalized into chunk_commits.
BuildCommitChunk ==
    /\ pc = "commit_chunk"
    /\ chunk_i <= NumChunks(all_commits, ChunkSize)
    /\ LET chunk == Chunks(all_commits, ChunkSize)[chunk_i] IN
        IF FindCommitFails(chunk)
        THEN /\ Abort("Failed to find commit.", "find")
             /\ UNCHANGED <<chunk_commits, commit_i>>
        ELSE /\ chunk_commits' = BuildChunkCommits(chunk)
             /\ commit_i' = 1
             /\ pc' = "batch_insert_commits"
             /\ UNCHANGED <<tx, db, err>>
    /\ UNCHANGED <<repo, file, tables, db_exists, chunk_i, parent_i,
                   chunk_refs, ref_i, created, log, db0, run>>

\* Mutant: main returns after the commits, the references are never read.
EndCommits_return ==
    /\ pc = "commit_chunk"
    /\ chunk_i > NumChunks(all_commits, ChunkSize)
    /\ pc' = "done"
    /\ chunk_i' = 0
    /\ UNCHANGED <<repo, file, tables, db, tx, db_exists, chunk_commits, commit_i,
                   parent_i, chunk_refs, ref_i, created, err, log, db0, run>>

\* The chunks are exhausted: get_commits_detail_array returns to main.
EndCommits ==
    /\ pc = "commit_chunk"
    /\ chunk_i > NumChunks(all_commits, ChunkSize)
    /\ pc' = "references"
    /\ chunk_i' = 0
    /\ UNCHANGED <<repo, file, tables, db, tx, db_exists, chunk_commits, commit_i,
                   parent_i, chunk_refs, ref_i, created, err, log, db0, run>>

\* ---------------------------------------------------- batch_insert_commits
\* for commit in commits { let tx = conn.transaction()?;
BeginCommitTx ==
    /\ pc = "batch_insert_commits"
    /\ commit_i <= Len(chunk_commits)
    /\ \/ /\ tx' = [open |-> TRUE, rows |-> EmptyRows]
          /\ pc' = "insert_commit"
          /\ UNCHANGED <<db, err>>
       \/ Abort("Failed to insert commits.", "begin")
    /\ UNCHANGED <<repo, file, tables, db_exists, locals, created, log, db0, run>>

\* Mutant: the commit row is written outside the transaction (autocommit).
InsertCommitDetails_autocommit ==
    /\ pc = "insert_commit"
    /\ LET row == CommitRow(chunk_commits[commit_i]) IN
        \E res \in InsertResults(T_commit_details, row) :
            /\ log' = Append(log, LogEntry(T_commit_details, row, res))
            /\ IF res = "ok"
               THEN /\ db' = [db EXCEPT !.commit_details = @ \cup {row}]
                    /\ parent_i' = 1
                    /\ pc' = "insert_relation"
                    /\ UNCHANGED <<tx, err>>
               ELSE /\ Abort("Failed to insert commits.", res)
                    /\ UNCHANGED parent_i
    /\ UNCHANGED <<repo, file, tables, db_exists, chunk_i, chunk_commits,
                   commit_i, chunk_refs, ref_i, created, db0, run>>

\* tx.execute(insert_sql, params![..])?;
InsertCommitDetails ==
    /\ pc = "insert_commit"
    /\ LET row == CommitRow(chunk_commits[commit_i]) IN
        \E res \in InsertResults(T_commit_details, row) :
            /\ log' = Append(log, LogEntry(T_commit_details, row, res))
            /\ IF res = "ok"
               THEN /\ tx' = [tx EXCEPT !.rows.commit_details = @ \cup {row}]
                    /\ parent_i' = 1
                    /\ pc' = "insert_relation"
                    /\ UNCHANGED <<db, err>>
               ELSE /\ Abort("Failed to insert commits.", res)
                    /\ UNCHANGED parent_i
    /\ UNCHANGED <<repo, file, tables, db_exists, chunk_i, chunk_commits,
                   commit_i, chunk_refs, ref_i, created, db0, run>>

\* for parent in &commit.parents { tx.execute(..).expect(..); }
InsertCommitRelation ==
    /\ pc = "insert_relation"
    /\ parent_i <= Len(chunk_commits[commit_i].parents)
    /\ LET row == RelationRow(chunk_commits[commit_i], parent_i) IN
        \E res \in InsertResults(T_commit_relation, row) :
            /\ log' = Append(log, LogEntry(T_commit_relation, row, res))
            /\ IF res = "ok"
               THEN /\ tx' = [tx EXCEPT !.rows.commit_relation = @ \cup {row}]
                    /\ parent_i' = parent_i + 1
                    /\ UNCHANGED <<pc, db, err>>
               ELSE /\ Abort("Failed to insert commit relation.", res)
                    /\ UNCHANGED parent_i
    /\ UNCHANGED <<repo, file, tables, db_exists, chunk_i, chunk_commits,
                   commit_i, chunk_refs, ref_i, created, db0, run>>

\* Mutant: the commit leaves the transaction open for the next record.
CommitCommitTx_keep_open ==
    /\ pc = "insert_relation"
    /\ parent_i > Len(chunk_commits[commit_i].parents)
    /\ \/ /\ db' = Committed
          /\ tx' = [open |-> TRUE, rows |-> EmptyRows]
          /\ commit_i' = commit_i + 1
          /\ parent_i' = 0
          /\ pc' = "batch_insert_commits"
          /\ UNCHANGED err
       \/ /\ Abort("Failed to insert commits.", "commit")
          /\ UNCHANGED <<commit_i, parent_i>>
    /\ UNCHANGED <<repo, file, tables, db_exists, chunk_i, chunk_commits,
                   chunk_refs, ref_i, created, log, db0, run>>

\* tx.commit()?;  } -- the transaction of this one commit ends here.
CommitCommitTx ==
    /\ pc = "insert_relation"
    /\ parent_i > Len(chunk_commits[commit_i].parents)
    /\ \/ /\ db' = Committed
          /\ tx' = NoTx
          /\ commit_i' = commit_i + 1
          /\ parent_i' = 0
          /\ pc' = "batch_insert_commits"
          /\ UNCHANGED err
       \/ /\ Abort("Failed to insert commits.", "commit")
          /\ UNCHANGED <<commit_i, parent_i>>
    /\ UNCHANGED <<repo, file, tables, db_exists, chunk_i, chunk_commits,
                   chunk_refs, ref_i, created, log, db0, run>>

\* Ok(()) -- batch_insert_commits returns; the outer loop takes the next chunk.
EndBatchCommits ==
    /\ pc = "batch_insert_commits"
    /\ commit_i > Len(chunk_commits)
    /\ chunk_i' = chunk_i + 1
    /\ chunk_commits' = <<>>
    /\ commit_i' = 0
    /\ pc' = "commit_chunk"
    /\ UNCHANGED <<repo, file, tables, db, tx, db_exists, parent_i, chunk_refs,
                   ref_i, created, err, log, db0, run>>

\* -------------------------------------------------------- get_ref_details
\* println!("Done!"); .. repo.references().expect(..).collect();
References ==
    /\ pc = "references"
    /\ \/ /\ pc' = "ref_chunk"
          /\ chunk_i' = 1
          /\ UNCHANGED <<tx, db, err>>
       \/ /\ Abort("Failed to get references.", "references")
          /\ UNCHANGED chunk_i
    /\ UNCHANGED <<repo, file, tables, db_exists, chunk_commits, commit_i,
                   parent_i, chunk_refs, ref_i, created, log, db0, run>>

\* for chunk in all_references.chunks(50) { .. inner loop .. }
BuildRefChunk ==
    /\ pc = "ref_chunk"
    /\ chunk_i <= NumChunks(all_references, ChunkSize)
    /\ chunk_refs' = BuildChunkRefs(Chunks(all_references, ChunkSize)[chunk_i])
    /\ ref_i' = 1
    /\ pc' = "batch_insert_refs"
    /\ UNCHANGED <<repo, file, tables, db, tx, db_exists, chunk_i, chunk_commits,
                   commit_i, parent_i, created, err, log, db0, run>>

\* The chunks are exhausted: get_ref_details returns, main prints "Done!".
EndRefs ==
    /\ pc = "ref_chunk"
    /\ chunk_i > NumChunks(all_references, ChunkSize)
    /\ pc' = "done"
    /\ chunk_i' = 0
    /\ UNCHANGED <<repo, file, tables, db, tx, db_exists, chunk_commits, commit_i,
                   parent_i, chunk_refs, ref_i, created, err, log, db0, run>>

\* ------------------------------------------------------- batch_insert_refs
\* The inner `for reference in chunk` has run through its chunk of
\* refs.chunks(chunk_size): reference ref_i would open the next one.
\* Mutant: the transaction is committed after every reference.
RefChunkDone_each ==
    \/ ref_i > Len(chunk_refs)
    \/ tx.rows.ref_details # {}

RefChunkDone ==
    \/ ref_i > Len(chunk_refs)
    \/ (ref_i - 1) % chunk_size = 0 /\ tx.rows.ref_details # {}

\* for chunk in refs.chunks(chunk_size) { let tx = conn.transaction()?;
BeginRefTx ==
    /\ pc = "batch_insert_refs"
    /\ ref_i <= Len(chunk_refs)
    /\ \/ /\ tx' = [open |-> TRUE, rows |-> EmptyRows]
          /\ pc' = "insert_ref"
          /\ UNCHANGED <<db, err>>
       \/ Abort("Failed to insert references.", "begin")
    /\ UNCHANGED <<repo, file, tables, db_exists, locals, created, log, db0, run>>

\* for reference in chunk { tx.execute(insert_sql, params![..])?; }
InsertRefDetails ==
    /\ pc = "insert_ref"
    /\ ~RefChunkDone
    /\ LET row == RefRow(chunk_refs[ref_i]) IN
        \E res \in InsertResults(T_ref_details, row) :
            /\ log' = Append(log, LogEntry(T_ref_details, row, res))
            /\ IF res = "ok"
               THEN /\ tx' = [tx EXCEPT !.rows.ref_details = @ \cup {row}]
                    /\ ref_i' = ref_i + 1
                    /\ UNCHANGED <<pc, db, err>>
               ELSE /\ Abort("Failed to insert references.", res)
                    /\ UNCHANGED ref_i
    /\ UNCHANGED <<repo, file, tables, db_exists, chunk_i, chunk_commits,
                   commit_i, parent_i, chunk_refs, created, db0, run>>

\* tx.commit()?;  } -- once per chunk of references.
CommitRefTx ==
    /\ pc = "insert_ref"
    /\ RefChunkDone
    /\ \/ /\ db' = Committed
          /\ tx' = NoTx
          /\ pc' = "batch_insert_refs"
          /\ UNCHANGED err
       \/ Abort("Failed to insert references.", "commit")
    /\ UNCHANGED <<repo, file, tables, db_exists, locals, created, log, db0, run>>

\* Ok(()) -- batch_insert_refs returns; the outer loop takes the next chunk.
EndBatchRefs ==
    /\ pc = "batch_insert_refs"
    /\ ref_i > Len(chunk_refs)
    /\ chunk_i' = chunk_i + 1
    /\ chunk_refs' = <<>>
    /\ ref_i' = 0
    /\ pc' = "ref_chunk"
    /\ UNCHANGED <<repo, file, tables, db, tx, db_exists, chunk_commits, commit_i,
                   parent_i, created, err, log, db0, run>>

\* ------------------------------------------------------------- the runs
Terminated == pc \in {"done", "failed"}

\* The program is started again on the same repository and destination.
StartRun ==
    /\ Terminated
    /\ run < MaxRuns
    /\ run' = run + 1
    /\ pc' = "main"
    /\ db0' = db
    /\ log' = <<>>
    /\ err' = NoErr
    /\ created' = "none"
    /\ db_exists' = FALSE
    /\ chunk_i' = 0
    /\ chunk_commits' = <<>>
    /\ commit_i' = 0
    /\ parent_i' = 0
    /\ chunk_refs' = <<>>
    /\ ref_i' = 0
    /\ UNCHANGED <<repo, file, tables, db, tx>>

\* One step of the running process.
Step ==
    \/ OpenConnection
    \/ create_database
    \/ OpenRepository
    \/ Revwalk
    \/ BuildCommitChunk
    \/ EndCommits
    \/ BeginCommitTx
    \/ InsertCommitDetails
    \/ InsertCommitRelation
    \/ CommitCommitTx
    \/ EndBatchCommits
    \/ References
    \/ BuildRefChunk
    \/ EndRefs
    \/ BeginRefTx
    \/ InsertRefDetails
    \/ CommitRefTx
    \/ EndBatchRefs

Next == Step \/ StartRun

Spec == Init /\ [][Next]_vars

\* The process is one thread that runs every statement to its end: a step
\* that can be taken is taken.
FairSpec == Spec /\ WF_vars(Step)

\* ------------------------------------------- the normalizer on any input
\* The two loops that call the normalizer, started on a traversal of up to
\* MaxNorm items, each item yielded as Ok or Err and each with any of its
\* optional fields absent.  The process stands where main has opened the
\* destination, created the tables and opened the repository.
NormCommitChoices ==
    [res : {"Ok", "Err"}, author : {None, Some("alice")}, message : {None, Some("init")}]

NormRefChoices ==
    [res : {"Ok", "Err"}, name : {None, Some("refs/heads/main")},
     target : {None, Some(1)}, kind : {None, Some("Direct"), Some("Symbolic")}]

NormCommit(i, n, ch) ==
    [res |-> ch.res, oid |-> i, found |-> TRUE, author |-> ch.author,
     time |-> n - i, message |-> ch.message,
     parent_ids |-> IF i < n THEN <<i + 1>> ELSE <<>>]

NormCommitLists ==
    UNION { { [i \in 1..n |-> NormCommit(i, n, f[i])] : f \in [1..n -> NormCommitChoices] } :
            n \in 1..MaxNorm }

NormRefLists == UNION { [1..n -> NormRefChoices] : n \in 1..MaxNorm }

NormInit ==
    /\ \/ /\ pc = "commit_chunk"
          /\ \E cs \in NormCommitLists : repo = [commits |-> cs, refs |-> <<>>]
          /\ db = EmptyRows
       \/ /\ pc = "ref_chunk"
          /\ \E rs \in NormRefLists :
                repo = [commits |-> <<RawCommit(1, 1, "plain")>>, refs |-> rs]
          /\ db = [EmptyRows EXCEPT !.commit_details =
                        {CommitRow(extract_commit_details(RawCommit(1, 1, "plain")))}]
    /\ file = TRUE
    /\ tables = { SchemaTables[i] : i \in 1..Len(SchemaTables) }
    /\ tx = NoTx
    /\ db_exists = FALSE
    /\ chunk_i = 1
    /\ chunk_commits = <<>>
    /\ commit_i = 0
    /\ parent_i = 0
    /\ chunk_refs = <<>>
    /\ ref_i = 0
    /\ created = "ok"
    /\ err = NoErr
    /\ log = <<>>
    /\ db0 = EmptyRows
    /\ run = 1

NormNext == BuildCommitChunk \/ BuildRefChunk

SpecNorm == NormInit /\ [][NormNext]_vars

\* ------------------------------------------- any order of the traversal
\* One commit graph, walked in every order.  Commit n is the root, commit o
\* has parent o + 1, and commit 1 is a merge of 2 and n when there are three
\* commits or more.  Revwalk's default sorting promises no order.
MaxOrder == 3

OrderParents(o, n) ==
    IF o = n THEN <<>>
    ELSE IF o = 1 /\ n >= 3 THEN <<2, n>>
    ELSE <<o + 1>>

OrderCommit(o, n) ==
    [res |-> "Ok", oid |-> o, found |-> TRUE, author |-> Some("alice"),
     time |-> n - o, message |-> Some("init"), parent_ids |-> OrderParents(o, n)]

WalkOrders(n) == { f \in [1..n -> 1..n] : \A a, b \in 1..n : a # b => f[a] # f[b] }

OrderRepositories ==
    UNION { { [commits |-> [i \in 1..n |-> OrderCommit(f[i], n)],
               refs |-> <<RawRef(1, "plain")>>] : f \in WalkOrders(n) } :
            n \in 2..MaxOrder }

OrderInit ==
    /\ repo \in OrderRepositories
    /\ file = FALSE
    /\ tables = {}
    /\ db = EmptyRows
    /\ tx = NoTx
    /\ pc = "main"
    /\ db_exists = FALSE
    /\ chunk_i = 0
    /\ chunk_commits = <<>>
    /\ commit_i = 0
    /\ parent_i = 0
    /\ chunk_refs = <<>>
    /\ ref_i = 0
    /\ created = "none"
    /\ err = NoErr
    /\ log = <<>>
    /\ db0 = EmptyRows
    /\ run = 1

SpecOrder == OrderInit /\ [][Next]_vars

\* ------------------------------------------------- the chunking alone
\* The two chunk loops on lists of every length up to two chunks and one
\* item: all_commits.chunks(50) over n >= 1 commits (push_head yields none
\* only by failing), all_references.chunks(50) over n >= 0 references.
MaxBatch == 101

BatchInit ==
    /\ \/ /\ pc = "commit_chunk"
          /\ \E n \in 1..MaxBatch : repo = MakeRepo(n, 0, 0, "plain")
          /\ db = EmptyRows
       \/ /\ pc = "ref_chunk"
          /\ \E n \in 0..MaxBatch : repo = MakeRepo(1, n, 0, "plain")
          /\ db = [EmptyRows EXCEPT !.commit_details =
                        {CommitRow(extract_commit_details(RawCommit(1, 1, "plain")))}]
    /\ file = TRUE
    /\ tables = { SchemaTables[i] : i \in 1..Len(SchemaTables) }
    /\ tx = NoTx
    /\ db_exists = FALSE
    /\ chunk_i = 1
    /\ chunk_commits = <<>>
    /\ commit_i = 0
    /\ parent_i = 0
    /\ chunk_refs = <<>>
    /\ ref_i = 0
    /\ created = "ok"
    /\ err = NoErr
    /\ log = <<>>
    /\ db0 = EmptyRows
    /\ run = 1

BatchNext ==
    \/ BuildCommitChunk \/ EndCommits
    \/ BeginCommitTx \/ InsertCommitDetails \/ InsertCommitRelation
    \/ CommitCommitTx \/ EndBatchCommits
    \/ References \/ BuildRefChunk \/ EndRefs
    \/ BeginRefTx \/ InsertRefDetails \/ CommitRefTx \/ EndBatchRefs

SpecBatch == BatchInit /\ [][BatchNext]_vars

\* ===================================================== the properties
\* What the destination and the repository look like to an observer.
Ids(rows) == { x.id : x \in rows }

\* The rows this run added to table t.
Added(t) == db[t] \ db0[t]

\* Positions of all_commits / all_references that lie in chunk c.
ChunkPositions(s, c) == { i \in 1..Len(s) : (i - 1) \div ChunkSize + 1 = c }

\* The commits the traversal yielded as Ok, and those of one chunk.
OkCommitPositions == { i \in 1..Len(repo.commits) : repo.commits[i].res = "Ok" }
OkRefPositions == { j \in 1..Len(repo.refs) : repo.refs[j].res = "Ok" }

CommitIdAt(i) == OidToString(repo.commits[i].oid)

\* The reference at position j has its row in ref_details.
RefStored(j) ==
    \E x \in db.ref_details :
        /\ x.name = (IF repo.refs[j].name = None THEN "" ELSE repo.refs[j].name[1])
        /\ x.id = (IF repo.refs[j].target = None THEN "Unknown"
                   ELSE OidToString(repo.refs[j].target[1]))

CommitPhaseFailure ==
    /\ pc = "failed"
    /\ err.msg \in {"Failed to insert commits.", "Failed to insert commit relation."}

RefPhaseFailure == pc = "failed" /\ err.msg = "Failed to insert references."

\* The last INSERT this run executed failed.
InsertFailed == log # <<>> /\ log[Len(log)].result # "ok"

\* C1: commit batch atomicity.  When an insert of the commit sub-pipeline
\* fails in a chunk, none of that chunk's rows (commit_details,
\* commit_relation) has been added to the store, and every Ok commit of the
\* earlier chunks has its row.
C1_CommitChunkAtomic ==
    (CommitPhaseFailure /\ InsertFailed) =>
        /\ \A i \in ChunkPositions(repo.commits, chunk_i) :
            /\ CommitIdAt(i) \notin Ids(Added(T_commit_details))
            /\ \A x \in Added(T_commit_relation) : x.child # CommitIdAt(i)
        /\ \A c \in 1..(chunk_i - 1) :
            \A i \in ChunkPositions(repo.commits, c) \cap OkCommitPositions :
                CommitIdAt(i) \in Ids(db.commit_details)

\* C2: completeness.  A run against a fresh destination that skipped no item
\* and reached the end leaves exactly one commit_details row per commit of
\* the traversal and exactly one ref_details row per reference.
NoSkips ==
    /\ OkCommitPositions = 1..Len(repo.commits)
    /\ OkRefPositions = 1..Len(repo.refs)

C2_Completeness ==
    (pc = "done" /\ ~db_exists /\ NoSkips) =>
        /\ Ids(db.commit_details) = { CommitIdAt(i) : i \in 1..Len(repo.commits) }
        /\ Cardinality(db.commit_details) = Len(repo.commits)
        /\ Cardinality(db.ref_details) = Len(repo.refs)
        /\ \A j \in 1..Len(repo.refs) : RefStored(j)

C2_Witness ==
    /\ pc = "done" /\ ~db_exists /\ NoSkips
    /\ Len(repo.commits) > ChunkSize
    /\ Len(repo.refs) > 0
    /\ Cardinality(db.commit_details) = Len(repo.commits)

\* C3: edge count.  After a run that reached the end, commit_relation is
\* exactly the (parent, child) pairs of the persisted commits; its size is
\* the sum of their parent counts; each persisted commit has as many rows
\* with itself as child as it has parents (none for a root, two for a merge
\* of two parents).
PersistedPositions ==
    { i \in 1..Len(repo.commits) : CommitIdAt(i) \in Ids(db.commit_details) }

RECURSIVE SumParents(_)
SumParents(S) ==
    IF S = {} THEN 0
    ELSE LET i == CHOOSE x \in S : TRUE
         IN Len(repo.commits[i].parent_ids) + SumParents(S \ {i})

EdgesOf(i) ==
    { [parent |-> OidToString(repo.commits[i].parent_ids[p]), child |-> CommitIdAt(i)] :
        p \in 1..Len(repo.commits[i].parent_ids) }

C3_EdgeCount ==
    pc = "done" =>
        /\ db.commit_relation = UNION { EdgesOf(i) : i \in PersistedPositions }
        /\ Cardinality(db.commit_relation) = SumParents(PersistedPositions)
        /\ \A i \in PersistedPositions :
            Cardinality({ x \in db.commit_relation : x.child = CommitIdAt(i) })
                = Len(repo.commits[i].parent_ids)

C3_Witness ==
    /\ pc = "done"
    /\ \E i \in PersistedPositions : Len(repo.commits[i].parent_ids) = 0
    /\ \E i \in PersistedPositions :
        /\ Len(repo.commits[i].parent_ids) = 2
        /\ Cardinality({ x \in db.commit_relation : x.child = CommitIdAt(i) }) = 2

\* C4: idempotency of failure.  A run that starts on a destination that
\* already holds rows adds nothing and changes nothing, never reaches the
\* end, and the first INSERT it executes is its only one: it fails on the
\* primary key and ends the run.
C4_SecondRunFails ==
    (run > 1 /\ db0 # EmptyRows) =>
        /\ db = db0
        /\ tx.rows = EmptyRows
        /\ pc # "done"
        /\ log # <<>> =>
            /\ Len(log) = 1
            /\ log[1].result = "constraint"
            /\ \E x \in db0[log[1].table] :
                KeyOf(log[1].table, x) = KeyOf(log[1].table, log[1].row)
            /\ pc = "failed" /\ err.cause = "constraint"

C4_Witness ==
    /\ run > 1 /\ db0 # EmptyRows
    /\ Cardinality(db0.commit_details) > ChunkSize
    /\ db0.ref_details # {}
    /\ pc = "failed" /\ err.cause = "constraint"
    /\ log # <<>> /\ log[1].table = T_commit_details

\* C5: a persistence failure is fatal and final.  In the failed state of a
\* run that a transaction or an insert ended in chunk K: no transaction is
\* open; every Ok item of the chunks before K (and, for a failure among the
\* references, every Ok commit) has its row; no INSERT was executed for a
\* later chunk, and none for a reference when the failure was among the
\* commits; no statement was executed after the one that failed.
\* From the failed state nothing happens but a new start of the program,
\* which leaves the store as it is.
EarlierCommitChunksPersisted(K) ==
    \A c \in 1..(K - 1) :
        \A i \in ChunkPositions(repo.commits, c) \cap OkCommitPositions :
            CommitIdAt(i) \in Ids(db.commit_details)

EarlierRefChunksPersisted(K) ==
    \A c \in 1..(K - 1) :
        \A j \in ChunkPositions(repo.refs, c) \cap OkRefPositions : RefStored(j)

\* A failed statement is the last statement of its run.
NoRetry == \A a \in 1..(Len(log) - 1) : log[a].result = "ok"

C5_FailedState ==
    /\ CommitPhaseFailure =>
        /\ tx = NoTx
        /\ EarlierCommitChunksPersisted(chunk_i)
        /\ \A n \in 1..Len(log) :
            log[n].table # T_ref_details /\ log[n].chunk <= chunk_i
        /\ NoRetry
    /\ RefPhaseFailure =>
        /\ tx = NoTx
        /\ EarlierCommitChunksPersisted(NumChunks(repo.commits, ChunkSize) + 1)
        /\ EarlierRefChunksPersisted(chunk_i)
        /\ \A n \in 1..Len(log) :
            log[n].table = T_ref_details => log[n].chunk <= chunk_i
        /\ NoRetry

C5_FailureIsFinal ==
    /\ []C5_FailedState
    /\ [][pc = "failed" => (pc' = "main" /\ run' = run + 1 /\ db' = db /\ log' = <<>>)]_vars

C5_Witness ==
    /\ CommitPhaseFailure /\ InsertFailed
    /\ chunk_i = 2
    /\ Cardinality(Added(T_commit_details)) >= ChunkSize

\* C6: a schema-creation failure is fatal.  Once create_database has
\* returned an Err the process is in its failed state and has executed no
\* INSERT.
C6_SchemaFailureFatal ==
    created = "error" => (pc = "failed" /\ log = <<>>)

\* C7: per-item traversal errors are recoverable.  No run ends because a
\* commit identifier or a reference failed to resolve, and a run that
\* reached the end has persisted every other commit and reference.
C7_ItemErrorsSkipped ==
    /\ pc = "failed" => err.msg # "Failed to find commit."
    /\ pc = "done" =>
        /\ \A i \in OkCommitPositions : CommitIdAt(i) \in Ids(db.commit_details)
        /\ \A j \in OkRefPositions : RefStored(j)

\* C8: sub-pipeline order.  Whenever the reference sub-pipeline has begun
\* (it is running, a reference row is pending or was added, or a reference
\* INSERT was executed in this run), every commit the traversal yielded is
\* committed and no commit row is pending; a run that failed in the commit
\* sub-pipeline added no ref_details row and executed no reference INSERT.
RefsBegun ==
    \/ pc \in {"ref_chunk", "batch_insert_refs", "insert_ref"}
    \/ tx.rows.ref_details # {}
    \/ Added(T_ref_details) # {}
    \/ \E n \in 1..Len(log) : log[n].table = T_ref_details

CommitSubPipelineFailed ==
    /\ pc = "failed"
    /\ err.msg \in {"Failed to push head.", "Failed to find commit.",
                    "Failed to insert commits.", "Failed to insert commit relation."}

C8_CommitsBeforeRefs ==
    /\ RefsBegun =>
        /\ \A i \in OkCommitPositions : CommitIdAt(i) \in Ids(db.commit_details)
        /\ tx.rows.commit_details = {} /\ tx.rows.commit_relation = {}
    /\ CommitSubPipelineFailed =>
        /\ Added(T_ref_details) = {}
        /\ \A n \in 1..Len(log) : log[n].table # T_ref_details

C8_Witness ==
    /\ pc = "insert_ref" /\ tx.open /\ tx.rows.ref_details # {}
    /\ Len(repo.commits) > ChunkSize
    /\ Cardinality(db.commit_details) = Len(repo.commits)

\* C9: normalization never fails and substitutes fixed fallbacks.  After the
\* loop over a chunk, chunk_commits / chunk_refs hold exactly one record per
\* item the traversal yielded as Ok, in order; a commit record has author
\* "Unknown" when the author name is absent and message "No message" when
\* the message is absent, otherwise the given values; a reference record has
\* id "Unknown" when there is no target, name "" when the name is absent, and
\* kind Direct, Symbolic or Unknown by the reference's kind; the loops end
\* no run.
KthOf(S, k) == CHOOSE i \in S : Cardinality({ j \in S : j <= i }) = k

OkInChunk(s) == { i \in ChunkPositions(s, chunk_i) : s[i].res = "Ok" }

C9_Fallbacks ==
    /\ pc # "failed"
    /\ pc = "batch_insert_commits" =>
        /\ Len(chunk_commits) = Cardinality(OkInChunk(repo.commits))
        /\ \A k \in 1..Len(chunk_commits) :
            LET raw == repo.commits[KthOf(OkInChunk(repo.commits), k)]
                rec == chunk_commits[k]
            IN  /\ rec.author = (IF raw.author = None THEN "Unknown" ELSE raw.author[1])
                /\ rec.message = (IF raw.message = None THEN "No message"
                                  ELSE raw.message[1])
    /\ pc = "batch_insert_refs" =>
        /\ Len(chunk_refs) = Cardinality(OkInChunk(repo.refs))
        /\ \A k \in 1..Len(chunk_refs) :
            LET raw == repo.refs[KthOf(OkInChunk(repo.refs), k)]
                rec == chunk_refs[k]
            IN  /\ rec.id = (IF raw.target = None THEN "Unknown"
                             ELSE OidToString(raw.target[1]))
                /\ rec.name = (IF raw.name = None THEN "" ELSE raw.name[1])
                /\ rec.kind = (IF raw.kind = None THEN "Unknown" ELSE raw.kind[1])
                /\ rec.kind \in {"Direct", "Symbolic", "Unknown"}

C9_Witness ==
    /\ pc = "batch_insert_commits"
    /\ Len(chunk_commits) = 1 /\ Len(repo.commits) = 2
    /\ chunk_commits[1].author = "Unknown"
    /\ chunk_commits[1].message = "No message"

\* C10: termination.  Every run that starts reaches "done" or "failed"; the
\* process stops nowhere else; in both outcomes no transaction is open; and
\* at "done" every item the traversals yielded has been persisted, no chunk
\* was left out.
AllPersisted ==
    /\ \A i \in OkCommitPositions : CommitIdAt(i) \in Ids(db.commit_details)
    /\ \A j \in OkRefPositions : RefStored(j)

C10_Termination ==
    /\ (pc = "main") ~> Terminated
    /\ [](~Terminated => ENABLED Step)
    /\ [](Terminated => tx = NoTx)
    /\ [](pc = "done" => AllPersisted)

C10_Witness ==
    /\ pc = "done"
    /\ Len(repo.commits) > ChunkSize
    /\ Len(repo.refs) > 0
    /\ AllPersisted

\* C11: traversal-order independence.  In a first run on a fresh
\* destination no INSERT is refused on account of what was inserted before
\* it, and when the run reaches the end commit_details holds the row of
\* every commit of the graph and commit_relation every (parent, child) edge
\* of the graph, the same for every order in which the traversal yields the
\* commits; in particular the root, its child and the edge between them.
GraphSize == Len(repo.commits)

GraphDetails ==
    { [id |-> OidToString(o), author |-> "alice", date |-> GraphSize - o,
       message |-> "init"] : o \in 1..GraphSize }

GraphEdges ==
    UNION { { [parent |-> OidToString(OrderParents(o, GraphSize)[p]),
               child |-> OidToString(o)] :
              p \in 1..Len(OrderParents(o, GraphSize)) } : o \in 1..GraphSize }

C11_OrderIndependent ==
    /\ run = 1 => \A k \in 1..Len(log) : log[k].result # "constraint"
    /\ (run = 1 /\ pc = "done") =>
        /\ db.commit_details = GraphDetails
        /\ db.commit_relation = GraphEdges
        /\ [parent |-> OidToString(GraphSize), child |-> OidToString(GraphSize - 1)]
               \in db.commit_relation

\* The root was yielded first and its child after it, and the run ended.
C11_Witness ==
    /\ run = 1 /\ pc = "done"
    /\ \E i, j \in 1..GraphSize :
        /\ i < j
        /\ repo.commits[i].oid = GraphSize
        /\ repo.commits[j].oid = GraphSize - 1
    /\ db.commit_relation = GraphEdges

\* C12: a commit's edges are stored with its row, in one transaction.  In
\* every state of the store, each commit of the traversal either has its
\* commit_details row and every (parent, child) row of its parents, or has
\* neither its row nor any row with itself as child; and no commit_relation
\* row has a child without a commit_details row.
C12_EdgesWithCommit ==
    /\ \A i \in 1..Len(repo.commits) :
        \/ /\ CommitIdAt(i) \in Ids(db.commit_details)
           /\ EdgesOf(i) \subseteq db.commit_relation
        \/ /\ CommitIdAt(i) \notin Ids(db.commit_details)
           /\ \A x \in db.commit_relation : x.child # CommitIdAt(i)
    /\ \A x \in db.commit_relation : x.child \in Ids(db.commit_details)

\* A merge commit is durable with both its edges while the run goes on, and
\* the next commit's row is pending in a transaction of its own.
C12_Witness ==
    /\ pc = "insert_relation" /\ tx.rows.commit_details # {}
    /\ \E i \in 1..Len(repo.commits) :
        /\ Len(repo.commits[i].parent_ids) = 2
        /\ CommitIdAt(i) \in Ids(db.commit_details)
        /\ Cardinality({ x \in db.commit_relation : x.child = CommitIdAt(i) }) = 2

\* C13: reference batch atomicity.  The references of a chunk are inserted
\* in one transaction, committed once after the chunk's last insert: while
\* the inserts go on the transaction holds the rows of the chunk inserted so
\* far and the run has stored none of the chunk's rows; in every state each
\* chunk of the references has all the rows of its Ok items stored or none;
\* when an insert of chunk K fails, the run has stored none of chunk K's
\* rows and all rows of the chunks before K are stored.
RefChunkStored(c) ==
    \A j \in ChunkPositions(repo.refs, c) \cap OkRefPositions : RefStored(j)

RefChunkAbsent(c) ==
    \A j \in ChunkPositions(repo.refs, c) \cap OkRefPositions : ~RefStored(j)

\* This run has stored no row of chunk c.
RefChunkNotAdded(c) ==
    \A j \in ChunkPositions(repo.refs, c) \cap OkRefPositions :
        \A x \in Added(T_ref_details) :
            \/ x.name # (IF repo.refs[j].name = None THEN "" ELSE repo.refs[j].name[1])
            \/ x.id # (IF repo.refs[j].target = None THEN "Unknown"
                       ELSE OidToString(repo.refs[j].target[1]))

C13_RefChunkAtomic ==
    /\ pc = "insert_ref" =>
        /\ tx.open
        /\ Len(chunk_refs) <= ChunkSize
        /\ Ids(tx.rows.ref_details) = { chunk_refs[k].id : k \in 1..(ref_i - 1) }
        /\ Cardinality(tx.rows.ref_details) = ref_i - 1
        /\ RefChunkNotAdded(chunk_i)
    /\ \A c \in 1..NumChunks(repo.refs, ChunkSize) : RefChunkStored(c) \/ RefChunkAbsent(c)
    /\ (RefPhaseFailure /\ InsertFailed) =>
        /\ RefChunkNotAdded(chunk_i)
        /\ EarlierRefChunksPersisted(chunk_i)

\* The last insert of a full chunk is rejected after all the others were
\* accepted: nothing of the chunk is stored.
C13_Witness ==
    /\ RefPhaseFailure /\ InsertFailed
    /\ chunk_i = 1 /\ Len(chunk_refs) = ChunkSize /\ ref_i = ChunkSize
    /\ Len(log) >= ChunkSize
    /\ db0.ref_details = {} /\ db.ref_details = {}

\* C14: transactions are strictly sequential.  A transaction is open only
\* between its begin and its commit or failure, and a begin happens only
\* when no transaction is open; a transaction of the commits holds no
\* reference row and one of the references no commit row; when a
\* transaction is open for chunk K, the Ok items of every chunk before K are
\* stored; the INSERTs of a run are executed chunk after chunk, those of the
\* commits all before those of the references.
InTx == pc \in {"insert_commit", "insert_relation", "insert_ref"}

C14_Sequential ==
    /\ [](tx.open <=> InTx)
    /\ [](~tx.open => tx.rows = EmptyRows)
    /\ [](pc \in {"insert_commit", "insert_relation"} =>
            /\ tx.rows.ref_details = {}
            /\ EarlierCommitChunksPersisted(chunk_i))
    /\ [](pc = "insert_ref" =>
            /\ tx.rows.commit_details = {} /\ tx.rows.commit_relation = {}
            /\ EarlierRefChunksPersisted(chunk_i))
    /\ [](\A a, b \in 1..Len(log) :
            a < b =>
              /\ log[a].table = T_ref_details => log[b].table = T_ref_details
              /\ (log[a].table = T_ref_details <=> log[b].table = T_ref_details)
                    => log[a].chunk <= log[b].chunk)
    /\ [][(tx'.open /\ tx'.rows = EmptyRows /\ tx' # tx) => tx = NoTx]_vars

\* The transaction of the second chunk of references is open, the first
\* chunk's rows are stored.
C14_Witness ==
    /\ pc = "insert_ref" /\ tx.open /\ chunk_i = 2
    /\ Cardinality(db.ref_details) = ChunkSize

\* C15: the batcher.  For a list of n records the chunks of size 50 hold
\* between 1 and 50 records each, only the last may hold fewer than 50,
\* there are ceil(n / 50) of them (none for n = 0), and their concatenation
\* in order is the list.  As the loops run: the chunk in hand holds the
\* records of positions (K - 1) * 50 + 1 .. in order, and at the end of a
\* loop the rows inserted are those of the list, each once, in the list's
\* order, each in the transaction of its chunk.
RECURSIVE Concat(_)
Concat(ch) ==
    IF Len(ch) = 0 THEN <<>>
    ELSE Concat(SubSeq(ch, 1, Len(ch) - 1)) \o ch[Len(ch)]

BatcherOk(s) ==
    LET ch == Chunks(s, ChunkSize) IN
    /\ Len(s) = 0 => Len(ch) = 0
    /\ Len(s) > 0 => ((Len(ch) - 1) * 50 < Len(s) /\ Len(s) <= Len(ch) * 50)
    /\ \A c \in 1..Len(ch) :
        /\ 1 <= Len(ch[c]) /\ Len(ch[c]) <= 50
        /\ c < Len(ch) => Len(ch[c]) = 50
    /\ Concat([c \in 1..Len(ch) |-> ch[c]]) = s

InsertedInto(t) == SelectSeq(log, LAMBDA e : e.table = t /\ e.result = "ok")

C15_Batcher ==
    /\ BatcherOk(all_commits)
    /\ BatcherOk(all_references)
    /\ pc = "batch_insert_commits" =>
        /\ 1 <= Len(chunk_commits) /\ Len(chunk_commits) <= 50
        /\ (chunk_i - 1) * 50 + Len(chunk_commits) <= Len(repo.commits)
        /\ Len(chunk_commits) < 50 =>
              (chunk_i - 1) * 50 + Len(chunk_commits) = Len(repo.commits)
        /\ \A k \in 1..Len(chunk_commits) :
              chunk_commits[k].id = CommitIdAt((chunk_i - 1) * 50 + k)
    /\ pc = "batch_insert_refs" =>
        /\ 1 <= Len(chunk_refs) /\ Len(chunk_refs) <= 50
        /\ (chunk_i - 1) * 50 + Len(chunk_refs) <= Len(repo.refs)
        /\ Len(chunk_refs) < 50 =>
              (chunk_i - 1) * 50 + Len(chunk_refs) = Len(repo.refs)
        /\ \A k \in 1..Len(chunk_refs) :
              chunk_refs[k].name = repo.refs[(chunk_i - 1) * 50 + k].name[1]
    /\ pc = "references" =>
        LET ins == InsertedInto(T_commit_details) IN
        /\ Len(ins) = Len(repo.commits)
        /\ \A i \in 1..Len(ins) :
            /\ ins[i].row.id = CommitIdAt(i)
            /\ ins[i].chunk = (i - 1) \div 50 + 1
    /\ pc = "done" =>
        LET ins == InsertedInto(T_ref_details) IN
        /\ Len(ins) = Len(repo.refs)
        /\ \A j \in 1..Len(ins) :
            /\ ins[j].row.name = repo.refs[j].name[1]
            /\ ins[j].chunk = (j - 1) \div 50 + 1

\* 51 references: the second chunk holds the one record left.
C15_Witness ==
    /\ pc = "batch_insert_refs" /\ chunk_i = 2
    /\ Len(chunk_refs) = 1 /\ Len(repo.refs) = 51
    /\ Cardinality(db.ref_details) = 50

\* C16: insert-only store.  No step of a run, and no new start of the
\* program, removes or changes a row of the store or drops a table: every
\* row stored before a step is stored after it with the same field values,
\* so each table's rows only grow, within a run and from run to run.
C16_InsertOnly ==
    /\ [][/\ \A t \in DOMAIN db : db[t] \subseteq db'[t]
          /\ tables \subseteq tables'
          /\ file => file']_vars
    /\ [](\A t \in DOMAIN db : db0[t] \subseteq db[t])

\* A later run has ended on a store that holds more than a chunk of commits
\* and a reference from the run before.
C16_Witness ==
    /\ run > 1 /\ pc = "failed"
    /\ Cardinality(db0.commit_details) > ChunkSize
    /\ db0.ref_details # {}
    /\ db = db0 /\ log # <<>>

\* C17: schema creation exactly when the destination did not exist.  Once
\* existence has been sampled and the destination opened: schema creation
\* was attempted if and only if the destination did not exist; if it did not
\* exist, all three tables are there before any INSERT is executed; if it
\* existed and lacks commit_details, the first INSERT of the run fails for
\* the missing table and ends the run.
Bootstrapped == pc \notin {"main", "create"} /\ err.cause # "open"

C17_SchemaWhenAbsent ==
    /\ Bootstrapped => (created # "none" <=> ~db_exists)
    /\ (Bootstrapped /\ ~db_exists /\ log # <<>>) =>
          tables = { SchemaTables[i] : i \in 1..Len(SchemaTables) }
    /\ (Bootstrapped /\ db_exists /\ T_commit_details \notin tables /\ log # <<>>) =>
          /\ Len(log) = 1
          /\ log[1].result = "no such table"
          /\ pc = "failed"

\* C18: a failed insert of a relation edge abandons the transaction.  When
\* the run has ended on the insert of an edge of commit c, no transaction
\* is open, the failed statement is the last one executed, and the store
\* holds neither the commit_details row of c nor any edge with child c,
\* those inserted before the failure included.
FailedChild == chunk_commits[commit_i].id

RelationInsertFailed == pc = "failed" /\ err.msg = "Failed to insert commit relation."

C18_RelationFailureAbandons ==
    RelationInsertFailed =>
        /\ tx = NoTx
        /\ log # <<>>
        /\ log[Len(log)].table = T_commit_relation
        /\ log[Len(log)].row.child = FailedChild
        /\ log[Len(log)].result # "ok"
        /\ \E k \in 1..(Len(log) - 1) :
            /\ log[k].table = T_commit_details
            /\ log[k].row.id = FailedChild
            /\ log[k].result = "ok"
        /\ FailedChild \notin Ids(db.commit_details)
        /\ \A x \in db.commit_relation : x.child # FailedChild

\* The commit lists the same parent twice: the first edge was inserted, the
\* second met its key.
C18_Witness ==
    /\ RelationInsertFailed /\ err.cause = "constraint"
    /\ \E k \in 1..(Len(log) - 1) :
        /\ log[k].table = T_commit_relation
        /\ log[k].row = log[Len(log)].row
        /\ log[k].result = "ok"
    /\ FailedChild \notin Ids(db.commit_details)

\* C19: re-running does not repair.  In a run that starts on a store that
\* holds the row of the first commit the traversal yields, the store stays
\* as the run found it, the end is not reached, and the only INSERT the run
\* executes is that of the first commit, which meets its key and ends the
\* run; what the store lacked of the repository, it still lacks.
FirstCommit == CHOOSE i \in OkCommitPositions : \A j \in OkCommitPositions : i <= j

FirstCommitStored ==
    /\ run > 1
    /\ OkCommitPositions # {}
    /\ CommitIdAt(FirstCommit) \in Ids(db0.commit_details)

MissingCommits == { i \in OkCommitPositions : CommitIdAt(i) \notin Ids(db.commit_details) }
MissingRefs == { j \in OkRefPositions : ~RefStored(j) }

C19_RerunNoRepair ==
    FirstCommitStored =>
        /\ db = db0
        /\ tx.rows = EmptyRows
        /\ pc # "done"
        /\ \A k \in 1..Len(log) :
            /\ k = 1
            /\ log[k].table = T_commit_details
            /\ log[k].row.id = CommitIdAt(FirstCommit)
            /\ log[k].result = "constraint"
            /\ pc = "failed" /\ err.msg = "Failed to insert commits."
        /\ \A i \in OkCommitPositions :
            CommitIdAt(i) \notin Ids(db0.commit_details) => i \in MissingCommits

\* The run before stopped part-way; this one has ended on the first commit's
\* key and commits and references are still missing.
C19_Witness ==
    /\ FirstCommitStored
    /\ pc = "failed" /\ err.cause = "constraint"
    /\ MissingCommits # {}
    /\ MissingRefs # {}
    /\ Len(repo.commits) > ChunkSize

====
